---- MODULE Spec2Model ----
(***************************************************************************)
(* Verification model of maxmcd/sliced: the assignment table (db.rs), the  *)
(* slice assignments value object and the rebalancer                       *)
(* (slice_assignments.rs), the request router (selection.rs), the health   *)
(* check (health_check.rs) and discovery (discovery.rs).                   *)
(*                                                                         *)
(* The specifications share the variables below:                           *)
(*   Spec    proxy replicas running get_assignments / new_servers against  *)
(*           the single row of the assignments table;                      *)
(*   SpecSA  one SliceAssignments object under new / update / move_load,   *)
(*           and the router reading its backends;                          *)
(*   SpecRB  Balance::find_best_moves over a snapshot of telemetry;        *)
(*   SpecHC  WorkerHealthCheck::check probing one backend;                 *)
(*   SpecDS  the replicas of Spec cycling for ever on what DNS answers,    *)
(*           with fairness.                                                *)
(***************************************************************************)
EXTENDS Integers, Sequences, FiniteSets, TLC

VARIABLES
    \* ---- assignments table and proxy replicas (db.rs) ----
    db,         \* the row id = 1: [timestamp, data]
    clock,      \* wall clock, milliseconds since the epoch
    pc,         \* per replica: position in its cycle
    expected,   \* per replica: version_timestamp handed to new_servers
    local,      \* per replica: `assignments` local of new_servers
    newts,      \* per replica: new_timestamp read in write_assignments
    resp,       \* per replica: result of write_assignments
    published,  \* per replica: last value returned by new_servers
    commits,    \* history: number of UPDATEs that changed the row
    readAt,     \* history: per replica, value of commits when the version
                \* it holds as precondition token was the stored one
    heldAt,     \* history: per replica, value of commits after its last commit
    reused,     \* history: per replica, the token came from its own write
    cycles,     \* cycles started by all replicas (bounds the exploration)
    \* ---- one SliceAssignments object and the router ----
    sa,         \* the object: [servers, assignments]
    lastOp,     \* last operation applied, its argument and the object before
    outcome,    \* "none" before the first operation, then "ok" or "panic"
    routed,     \* last answer of SliceSelection::iter
    \* ---- rebalancer ----
    rbBackends, \* input snapshot: address -> usage (NoUsage or slice -> load)
    rbPc,       \* position inside find_best_moves
    rbServers,  \* running `servers` map: address -> total load
    rbHot,      \* `overloaded` entries not yet visited, in visiting order
    rbMoves,    \* `moves` pushed so far
    rbTrace,    \* history: running map before each pushed move
    \* ---- health check of one backend (health_check.rs) ----
    hc,         \* HealthStatusInner: [is_healthy, last_check, usage]
    hcNow,      \* std::time::Instant::now()
    hcProbe,    \* last probe: what happened and what check returned
    hcStreak,   \* history: consecutive failed / successful probes so far
    hcParsed,   \* history: sample of the last probe whose body parsed
    \* ---- discovery (discovery.rs) ----
    dns         \* the name server: its TXT answers, whether it answers (up),
                \* whether the records are final and the outages over
                \* (settled) and, per replica, the backend set its last
                \* discover returned (emitted)

dbVars == <<db, clock, pc, expected, local, newts, resp, published,
            commits, readAt, heldAt, reused, cycles>>
saVars == <<sa, lastOp, outcome, routed>>
rbVars == <<rbBackends, rbPc, rbServers, rbHot, rbMoves, rbTrace>>
hcVars == <<hc, hcNow, hcProbe, hcStreak, hcParsed>>
vars == <<dbVars, saVars, rbVars, hcVars, dns>>

----------------------------------------------------------------------------
(* Bounds of the model.                                                    *)

MaxV4 == 3          \* IPv4 worker addresses 1..MaxV4
NumReplicas == 2    \* proxy replicas sharing the table
MaxClock == 2       \* the wall clock ranges over 1..MaxClock
MaxCycles == 3      \* discovery cycles run by all replicas together
MaxDiscovered == 2  \* IPv4 workers that discovery can return
MaxListLen == 2     \* longest worker list handed to new / update
MaxOps == 3         \* operations applied to one SliceAssignments object
MaxLoad == 2        \* largest per-slice load in a usage sample
MaxNow == 2         \* readings of the monotonic clock of the health check
MaxProbes == 3      \* probes of the health-checked backend
PointsPerBucket == 2 \* ring points per bucket (160 in pingora-ketama)

(* Program constants.                                                      *)
NUM_SLICES == 100
MAX_MOVES_PER_CYCLE == 3
consecutive_success == 1
consecutive_failure == 1

\* backends in a rebalancer snapshot: enough for one hot server more than
\* the moves of a cycle, next to a cold one
MaxBackends == 5

----------------------------------------------------------------------------
(* Addresses.  SocketAddr orders every V4 address before every V6 address, *)
(* so the integers 1..MaxV4 stand for IPv4 workers and MaxV4+1 for an IPv6 *)
(* worker, the integer order being the SocketAddr order.                   *)

Ipv4Addrs == 1..MaxV4
Ipv6Addrs == {MaxV4 + 1}
Addrs == Ipv4Addrs \cup Ipv6Addrs
is_ipv4(a) == a \in Ipv4Addrs

Replicas == 1..NumReplicas
Slices == 0..(NUM_SLICES - 1)
None == "None"

Range(s) == {s[i] : i \in 1..Len(s)}

\* servers.iter().position(|s| s == addr).unwrap(): first match, 0-based
position(servers, addr) ==
    (CHOOSE i \in 1..Len(servers) :
        servers[i] = addr /\ \A j \in 1..(i - 1) : servers[j] # addr) - 1

\* Vec::sort on SocketAddr
sort(servers) == SortSeq(servers, LAMBDA a, b : a < b)

----------------------------------------------------------------------------
(* pingora_ketama::Continuum.  Every bucket contributes PointsPerBucket    *)
(* points to the ring, placed by a hash of the address and the point       *)
(* number; the ring is sorted by hash, so it is a function of the SET of   *)
(* buckets.  node_idx hashes the key and finds the first point at or after *)
(* it, wrapping to the first point; get_addr is None on an empty ring.     *)

PointHash(a, j) == ((a * PointsPerBucket + j) * 97 + 13) % 251
KeyHash(key) == (key * 31 + 7) % 251

Continuum(buckets) ==
    {[hash |-> PointHash(a, j), addr |-> a] :
        a \in buckets, j \in 0..(PointsPerBucket - 1)}

get_addr(ring, key) ==
    IF ring = {} THEN None
    ELSE LET h == KeyHash(key)
             after == {p \in ring : p.hash >= h}
             cands == IF after = {} THEN ring ELSE after
         IN (CHOOSE p \in cands : \A q \in cands : p.hash <= q.hash).addr

\* the buckets both constructors and update make of a worker list
Buckets(servers) == {a \in Range(servers) : is_ipv4(a)}

\* slice i is looked up by the single byte `i as u8`
as_u8(i) == i % 256

\* ring.get_addr(&mut ring.node_idx(&[key])).unwrap_or(None) on the ring built
\* from a worker list
lookup(servers, key) == get_addr(Continuum(Buckets(servers)), key)

----------------------------------------------------------------------------
(* db.rs: SliceAssignments::new sorts, then assigns every slice by ring    *)
(* lookup.  The unwrap of get_addr panics when the ring is empty.          *)

DbNewPanics(servers) == Buckets(servers) = {}

DbNew(servers) ==
    LET sorted == sort(servers)
    IN [servers |-> sorted,
        assignments |-> [s \in 1..NUM_SLICES |->
                            position(sorted, lookup(sorted, as_u8(s - 1)))]]

\* serde_json::to_string / from_str of SliceAssignments: an object with the
\* fields "servers" and "assignments"; unknown fields are ignored on read
to_string(a) == <<<<"servers", a.servers>>, <<"assignments", a.assignments>>>>
Field(json, name) == (CHOOSE i \in 1..Len(json) : json[i][1] = name)
from_str(json) ==
    [servers |-> json[Field(json, "servers")][2],
     assignments |-> json[Field(json, "assignments")][2]]

\* the row installed by DB::new
InitialRow ==
    [timestamp |-> 0,
     data |-> <<<<"servers", <<>>>>, <<"assignments", <<>>>>, <<"timestamp", 0>>>>]

EmptySA == [servers |-> <<>>, assignments |-> <<>>]

\* the worker sets a discovery cycle can hand to new_servers (BTreeSet<String>)
DiscoveredSets == (SUBSET ((1..MaxDiscovered) \cup Ipv6Addrs)) \ {{}}

\* BTreeSet::into_iter().map(parse).collect(): some enumeration of the set
SetToSeq(S) ==
    CHOOSE q \in [1..Cardinality(S) -> S] : \A i, j \in 1..Cardinality(S) :
        i < j => q[i] < q[j]

----------------------------------------------------------------------------
(* Backends.  A Backend carries its address and, in its extension map, a   *)
(* slice set and a HealthStatus.  HealthStatus::new is healthy and has no  *)
(* usage sample (last_check is kept for the probed backend only).          *)

\* Option<Usage>: None, or Some(slice id -> load)
NoUsage == [some |-> FALSE, slices |-> <<>>]
SomeUsage(u) == [some |-> TRUE, slices |-> u]

HealthStatusNew == [is_healthy |-> TRUE, usage |-> NoUsage]

----------------------------------------------------------------------------
(* Spec: replicas against the assignments table.                           *)

NoResp == <<FALSE, 0>>

InitDB ==
    /\ db = InitialRow
    /\ clock = 1
    /\ pc = [r \in Replicas |-> "idle"]
    /\ expected = [r \in Replicas |-> 0]
    /\ local = [r \in Replicas |-> EmptySA]
    /\ newts = [r \in Replicas |-> 0]
    /\ resp = [r \in Replicas |-> NoResp]
    /\ published = [r \in Replicas |-> EmptySA]
    /\ commits = 0
    /\ readAt = [r \in Replicas |-> 0]
    /\ heldAt = [r \in Replicas |-> 0]
    /\ reused = [r \in Replicas |-> FALSE]
    /\ cycles = 0

NotRouted == [key |-> <<>>, slice |-> 0, result |-> "none", addr |-> 0]

InitSAIdle ==
    /\ sa = EmptySA
    /\ lastOp = [op |-> "none", arg |-> <<>>, before |-> EmptySA, n |-> 0]
    /\ outcome = "none"
    /\ routed = NotRouted

InitRBIdle ==
    /\ rbBackends = <<>>
    /\ rbPc = "idle"
    /\ rbServers = <<>>
    /\ rbHot = <<>>
    /\ rbMoves = <<>>
    /\ rbTrace = <<>>

\* the probed backend right after HealthStatus::new
NoProbe == [n |-> 0, kind |-> "none", status |-> 0, body |-> <<>>,
            ok |-> TRUE, code |-> 0]

InitHCIdle ==
    /\ hcNow = 1
    /\ hc = [is_healthy |-> HealthStatusNew.is_healthy, last_check |-> 1,
             usage |-> HealthStatusNew.usage]
    /\ hcProbe = NoProbe
    /\ hcStreak = [fails |-> 0, succs |-> 0]
    /\ hcParsed = NoUsage

\* Discovery::new: no backends yet; the zone starts without TXT answers
InitDns ==
    dns = [answers |-> {}, up |-> TRUE, settled |-> FALSE,
           emitted |-> [r \in Replicas |-> {}]]

Init == InitDB /\ InitSAIdle /\ InitRBIdle /\ InitHCIdle /\ InitDns

\* the wall clock advances
Tick ==
    /\ clock < MaxClock
    /\ clock' = clock + 1
    /\ UNCHANGED <<db, pc, expected, local, newts, resp, published,
                   commits, readAt, heldAt, reused, cycles, saVars, rbVars,
                   hcVars, dns>>

\* DB::get_assignments by the caller of new_servers: the version read is the
\* precondition token of the write that follows
GetAssignments(r) ==
    /\ pc[r] \in {"idle", "done"}
    /\ cycles < MaxCycles
    /\ cycles' = cycles + 1
    /\ pc' = [pc EXCEPT ![r] = "read"]
    /\ expected' = [expected EXCEPT ![r] = db.timestamp]
    /\ local' = [local EXCEPT ![r] = from_str(db.data)]
    /\ resp' = [resp EXCEPT ![r] = NoResp]
    /\ readAt' = [readAt EXCEPT ![r] = commits]
    /\ reused' = [reused EXCEPT ![r] = FALSE]
    /\ UNCHANGED <<db, clock, newts, published, commits, heldAt,
                   saVars, rbVars,
                   hcVars, dns>>

\* the version returned by a committed write_assignments is handed to the
\* next write without a get in between (test_db does so)
ReuseVersion(r) ==
    /\ pc[r] = "done"
    /\ resp[r][1]
    /\ cycles < MaxCycles
    /\ cycles' = cycles + 1
    /\ pc' = [pc EXCEPT ![r] = "read"]
    /\ expected' = [expected EXCEPT ![r] = resp[r][2]]
    /\ readAt' = [readAt EXCEPT ![r] = heldAt[r]]
    /\ reused' = [reused EXCEPT ![r] = TRUE]
    /\ UNCHANGED <<db, clock, local, newts, resp, published, commits, heldAt,
                   saVars, rbVars,
                   hcVars, dns>>

\* DB::new_servers up to the UPDATE: build the assignments from the
\* discovered set, serialize them and read the clock (write_assignments
\* reads new_timestamp() before it awaits the statement)
BuildAndStamp(r, servers) ==
    /\ pc[r] = "read"
    /\ IF DbNewPanics(SetToSeq(servers))
       THEN /\ pc' = [pc EXCEPT ![r] = "panicked"]
            /\ UNCHANGED <<local, newts>>
       ELSE /\ pc' = [pc EXCEPT ![r] = "writing"]
            /\ local' = [local EXCEPT ![r] = DbNew(SetToSeq(servers))]
            /\ newts' = [newts EXCEPT ![r] = clock]
    /\ UNCHANGED <<db, clock, expected, resp, published, commits, readAt,
                   heldAt, reused, cycles, saVars, rbVars,
                   hcVars>>

NewServers(r, servers) ==
    /\ BuildAndStamp(r, servers)
    /\ UNCHANGED dns

\* (mutation of WrittenTimestamp: the UPDATE leaves the timestamp column as
\* the precondition found it)
WrittenTimestampKept(r) == expected[r]

\* the new timestamp written by write_assignments
WrittenTimestamp(r) == newts[r]

\* the statement of write_assignments:
\* UPDATE assignments SET timestamp = ?, data = ? WHERE id = 1 AND timestamp = ?
WriteAssignments(r) ==
    /\ pc[r] = "writing"
    /\ LET rows_affected == IF db.timestamp = expected[r] THEN 1 ELSE 0
       IN /\ db' = IF rows_affected > 0
                   THEN [timestamp |-> WrittenTimestamp(r),
                         data |-> to_string(local[r])]
                   ELSE db
          /\ resp' = [resp EXCEPT ![r] = <<rows_affected > 0, newts[r]>>]
          /\ commits' = commits + rows_affected
          /\ heldAt' = IF rows_affected > 0
                       THEN [heldAt EXCEPT ![r] = commits + 1]
                       ELSE heldAt
    /\ pc' = [pc EXCEPT ![r] = "wrote"]
    /\ UNCHANGED <<clock, expected, local, newts, published, readAt,
                   reused, cycles, saVars, rbVars,
                   hcVars, dns>>

\* the rest of new_servers: on a conflict fetch what is stored, then return
Return(r) ==
    /\ pc[r] = "wrote"
    /\ LET result == IF resp[r][1] THEN local[r] ELSE from_str(db.data)
       IN /\ local' = [local EXCEPT ![r] = result]
          /\ published' = [published EXCEPT ![r] = result]
    /\ pc' = [pc EXCEPT ![r] = "done"]
    /\ UNCHANGED <<db, clock, expected, newts, resp, commits, readAt,
                   heldAt, reused, cycles, saVars, rbVars,
                   hcVars, dns>>

Next ==
    \/ Tick
    \/ \E r \in Replicas : GetAssignments(r)
    \/ \E r \in Replicas : ReuseVersion(r)
    \/ \E r \in Replicas : \E servers \in DiscoveredSets : NewServers(r, servers)
    \/ \E r \in Replicas : WriteAssignments(r)
    \/ \E r \in Replicas : Return(r)

Spec == Init /\ [][Next]_vars

----------------------------------------------------------------------------
(* SpecDS: the replicas cycling for ever, each cycle discovering the       *)
(* workers from DNS (discovery.rs) and handing them to new_servers.        *)

\* what the zone can answer: nothing, or the first workers
DnsAnswers == {{}} \cup {1..n : n \in 1..MaxDiscovered}

\* the TXT records of sliced.local. change; `final` says that they do not
\* change any more from here on and that name server and store stay up (the
\* zone is left alone only with workers in it)
DnsAnswer(S, final) ==
    /\ ~dns.settled
    /\ final => S # {}
    /\ dns' = [dns EXCEPT !.answers = S, !.up = TRUE, !.settled = final]
    /\ UNCHANGED <<dbVars, saVars, rbVars, hcVars>>

\* the name server stops answering: txt_lookup returns Err
DnsError ==
    /\ ~dns.settled
    /\ dns.up
    /\ dns' = [dns EXCEPT !.up = FALSE, !.answers = {}]
    /\ UNCHANGED <<dbVars, saVars, rbVars, hcVars>>

\* Discovery::discover, then DB::new_servers on what it returned, up to the
\* UPDATE.  The result of txt_lookup is unwrapped: an Err panics the task.
\* Otherwise one backend per answer is returned, also when there is none.
Discover(r) ==
    /\ pc[r] = "read"
    /\ IF ~dns.up
       THEN /\ pc' = [pc EXCEPT ![r] = "panicked"]
            /\ UNCHANGED <<db, clock, expected, local, newts, resp,
                           published, commits, readAt, heldAt, reused,
                           cycles, saVars, rbVars, hcVars, dns>>
       ELSE /\ dns' = [dns EXCEPT !.emitted[r] = dns.answers]
            /\ BuildAndStamp(r, dns.answers)

\* the timer of replica r fires: its cycle starts with the read of the table
StartCycle(r) ==
    /\ pc[r] = "idle"
    /\ GetAssignments(r)

\* a statement or query of the store fails: get_assignments, the UPDATE of
\* write_assignments, or the read after a conflict return Err, which
\* new_servers hands to its caller with `?`.  Outages of the store are
\* transient.
StoreError(r) ==
    /\ ~dns.settled
    /\ \/ pc[r] = "idle"
       \/ pc[r] = "writing"
       \/ pc[r] = "wrote" /\ ~resp[r][1]
    /\ pc' = [pc EXCEPT ![r] = "failed"]
    /\ UNCHANGED <<db, clock, expected, local, newts, resp, published,
                   commits, readAt, heldAt, reused, cycles, saVars, rbVars,
                   hcVars, dns>>

\* the cycle of replica r is over: it returned, failed, or its task died
Over(r) == pc[r] \in {"done", "failed", "panicked"}

\* update_frequency: every replica runs one cycle per period.  When the
\* cycles of a period are over the next period starts: the timers of the
\* living tasks are armed again.  No replica is inside a cycle, so no version
\* read earlier is held; the time origin moves to the stored version, which
\* is older than every later reading of the clock, the locals of the
\* returned calls are gone and the history counters start again.
NextPeriod ==
    /\ \A r \in Replicas : Over(r)
    /\ \E r \in Replicas : pc[r] # "panicked"
    /\ pc' = [r \in Replicas |->
                IF pc[r] = "panicked" THEN "panicked" ELSE "idle"]
    /\ cycles' = 0
    /\ clock' = 1
    /\ db' = [db EXCEPT !.timestamp = 0]
    /\ expected' = [r \in Replicas |-> 0]
    /\ local' = [r \in Replicas |-> EmptySA]
    /\ newts' = [r \in Replicas |-> 0]
    /\ resp' = [r \in Replicas |-> NoResp]
    /\ commits' = 0
    /\ readAt' = [r \in Replicas |-> 0]
    /\ heldAt' = [r \in Replicas |-> 0]
    /\ reused' = [r \in Replicas |-> FALSE]
    /\ UNCHANGED <<published, saVars, rbVars, hcVars, dns>>

NextDS ==
    \/ Tick
    \/ \E S \in DnsAnswers : \E final \in BOOLEAN : DnsAnswer(S, final)
    \/ DnsError
    \/ \E r \in Replicas : StartCycle(r)
    \/ \E r \in Replicas : Discover(r)
    \/ \E r \in Replicas : WriteAssignments(r)
    \/ \E r \in Replicas : Return(r)
    \/ \E r \in Replicas : StoreError(r)
    \/ NextPeriod

\* every replica runs its own timer and its own task: an armed timer fires,
\* and a cycle that can take its next step takes it
FairDS ==
    /\ WF_vars(NextPeriod)
    /\ \A r \in Replicas :
          /\ WF_vars(StartCycle(r))
          /\ WF_vars(Discover(r))
          /\ WF_vars(WriteAssignments(r))
          /\ WF_vars(Return(r))

SpecDS == Init /\ [][NextDS]_vars /\ FairDS

----------------------------------------------------------------------------
(* slice_assignments.rs: Balance.                                          *)

RECURSIVE SumOver(_, _)
SumOver(f, D) ==
    IF D = {} THEN 0
    ELSE LET x == CHOOSE y \in D : TRUE IN f[x] + SumOver(f, D \ {x})

Sum(f) == SumOver(f, DOMAIN f)
MaxOf(S) == CHOOSE x \in S : \A y \in S : y <= x

\* backends holding a usage sample
WithUsage(backends) == {b \in backends : b.health.usage.some}

\* collect_server_stats: (servers, server_slices), keyed by address
collect_servers(backends) ==
    [a \in {b.addr : b \in WithUsage(backends)} |->
        LET b == CHOOSE c \in WithUsage(backends) : c.addr = a
        IN Sum(b.health.usage.slices)]

collect_server_slices(backends) ==
    [a \in {b.addr : b \in WithUsage(backends)} |->
        (CHOOSE c \in WithUsage(backends) : c.addr = a).health.usage.slices]

\* (mutation of IsHot: the threshold is the mean itself)
IsHotAboveMean(servers, a) ==
    Cardinality(DOMAIN servers) * servers[a] > Sum(servers)

\* load as f32 > (sum as f32 / len as f32) * 1.2; over the loads of this
\* model the f32 comparison agrees with the exact one, 5*len*load > 6*sum.
\* With no server the average is NaN and no comparison holds.
IsHot(servers, a) ==
    5 * Cardinality(DOMAIN servers) * servers[a] > 6 * Sum(servers)

overloaded(servers) == {a \in DOMAIN servers : IsHot(servers, a)}

\* `overloaded` after sort_by(load descending): the entries come out of a
\* HashMap in an arbitrary order and the sort is stable, so servers of equal
\* load may be visited in either order
SeqsOf(S) ==
    {q \in [1..Cardinality(S) -> S] : \A i, j \in 1..Cardinality(S) :
        i # j => q[i] # q[j]}

\* (mutation of HotOrders: the hot servers are left in HashMap order)
HotOrdersUnsorted(servers) == SeqsOf(overloaded(servers))

HotOrders(servers) ==
    {q \in SeqsOf(overloaded(servers)) : \A i, j \in 1..Len(q) :
        i < j => servers[q[i]] >= servers[q[j]]}

\* calculate_imbalance: max_load as f32 / mean_load as f32 with the integer
\* mean total / len, kept as the pair <<max, mean>>
calculate_imbalance(servers) ==
    <<MaxOf({servers[a] : a \in DOMAIN servers}),
      Sum(servers) \div Cardinality(DOMAIN servers)>>

\* candidates of max_by_key over the hot server's slices (a HashMap: any of
\* the slices of maximal load can come out)
LargestSlices(slices) ==
    {s \in DOMAIN slices : \A t \in DOMAIN slices : slices[t] <= slices[s]}

\* candidates of min_by_key over the other servers of the running map
Targets(servers, hot) ==
    {a \in DOMAIN servers \ {hot} :
        \A b \in DOMAIN servers \ {hot} : servers[a] <= servers[b]}

\* (mutation of Visit: the move is pushed, the running map is left as it is)
VisitNoUpdate(servers, server_slices, hot, moves) ==
    IF LargestSlices(server_slices[hot]) = {} \/ Targets(servers, hot) = {}
    THEN {[servers |-> servers, moves |-> moves]}
    ELSE {[servers |-> servers,
           moves |-> Append(moves,
               [slice_id |-> s, from_server |-> hot, to_server |-> t,
                benefit |-> [old |-> calculate_imbalance(servers),
                             new |-> calculate_imbalance(servers)]])] :
          s \in LargestSlices(server_slices[hot]),
          t \in Targets(servers, hot)}

\* one iteration of the loop body for hot_server: the possible
\* (servers, moves) after it
Visit(servers, server_slices, hot, moves) ==
    IF LargestSlices(server_slices[hot]) = {} \/ Targets(servers, hot) = {}
    THEN {[servers |-> servers, moves |-> moves]}
    ELSE {LET load == server_slices[hot][s]
              after == [servers EXCEPT ![hot] = @ - load, ![t] = @ + load]
          IN [servers |-> after,
              moves |-> Append(moves,
                  [slice_id |-> s, from_server |-> hot, to_server |-> t,
                   benefit |-> [old |-> calculate_imbalance(servers),
                                new |-> calculate_imbalance(after)]])] :
          s \in LargestSlices(server_slices[hot]),
          t \in Targets(servers, hot)}

\* (mutation of LoopBreaks: the comparison is > instead of >=)
LoopBreaksLate(moves) == Len(moves) > MAX_MOVES_PER_CYCLE

\* the loop leaves when MAX_MOVES_PER_CYCLE moves were pushed
LoopBreaks(moves) == Len(moves) >= MAX_MOVES_PER_CYCLE

RECURSIVE Loop(_, _, _, _)
Loop(servers, server_slices, hot, moves) ==
    IF hot = <<>> \/ LoopBreaks(moves) THEN {moves}
    ELSE UNION {Loop(r.servers, server_slices, Tail(hot), r.moves) :
                    r \in Visit(servers, server_slices, Head(hot), moves)}

\* Balance::find_best_moves: every list of moves it can return
find_best_moves(backends) ==
    UNION {Loop(collect_servers(backends), collect_server_slices(backends),
                hot, <<>>) : hot \in HotOrders(collect_servers(backends))}

----------------------------------------------------------------------------
(* SpecRB: find_best_moves step by step over a snapshot of backends.       *)

Loads == 1..MaxLoad

\* the usage samples of a snapshot: no sample, an empty sample, a load for
\* the worker's first slice (slice 2a-2), or that and the unit load for its
\* second slice (slice 2a-1)
SampleShapes ==
    {NoUsage, SomeUsage(<<>>)} \cup
    {SomeUsage([d \in {0} |-> l]) : l \in Loads} \cup
    {SomeUsage([d \in {0, 1} |-> IF d = 0 THEN l ELSE 1]) : l \in Loads}

SampleOf(a, shape) ==
    [some |-> shape.some,
     slices |-> [s \in {2 * a - 2 + d : d \in DOMAIN shape.slices} |->
                    shape.slices[s - (2 * a - 2)]]]

\* collect_server_stats keys its maps by address and goes through them in
\* HashMap order, so which address holds which sample carries nothing; the
\* snapshots list the samples in the order of this rank
ShapeRank(shape) ==
    IF ~shape.some THEN 0
    ELSE IF DOMAIN shape.slices = {} THEN 1
    ELSE 2 * shape.slices[0] + (IF 1 \in DOMAIN shape.slices THEN 1 ELSE 0)

\* the snapshot in which worker a of 1..k holds the sample of shape u[a]
Snapshot(k, u) ==
    {[addr |-> a,
      health |-> [is_healthy |-> TRUE, usage |-> SampleOf(a, u[a])]] :
        a \in 1..k}

InitSnapshot ==
    /\ \E k \in 0..MaxBackends : \E u \in [1..k -> SampleShapes] :
          /\ \A i, j \in 1..k : i < j => ShapeRank(u[i]) <= ShapeRank(u[j])
          /\ rbBackends = Snapshot(k, u)
    /\ rbPc = "idle"
    /\ rbServers = <<>>
    /\ rbHot = <<>>
    /\ rbMoves = <<>>
    /\ rbTrace = <<>>

\* collect_server_stats, the threshold and the sorted list of hot servers
RBCollect ==
    /\ rbPc = "idle"
    /\ rbServers' = collect_servers(rbBackends)
    /\ rbHot' \in HotOrders(collect_servers(rbBackends))
    /\ rbMoves' = <<>>
    /\ rbTrace' = <<>>
    /\ rbPc' = "loop"
    /\ UNCHANGED <<rbBackends, dbVars, saVars,
                   hcVars, dns>>

\* `break` at the head of the loop
RBBreak ==
    /\ rbPc = "loop"
    /\ rbHot # <<>>
    /\ LoopBreaks(rbMoves)
    /\ rbPc' = "done"
    /\ UNCHANGED <<rbBackends, rbServers, rbHot, rbMoves, rbTrace,
                   dbVars, saVars,
                   hcVars, dns>>

\* the loop body for the next hot server
RBVisit ==
    /\ rbPc = "loop"
    /\ rbHot # <<>>
    /\ ~LoopBreaks(rbMoves)
    /\ \E r \in Visit(rbServers, collect_server_slices(rbBackends),
                      Head(rbHot), rbMoves) :
          /\ rbServers' = r.servers
          /\ rbMoves' = r.moves
          /\ rbTrace' = IF Len(r.moves) > Len(rbMoves)
                        THEN Append(rbTrace, rbServers) ELSE rbTrace
    /\ rbHot' = Tail(rbHot)
    /\ UNCHANGED <<rbBackends, rbPc, dbVars, saVars,
                   hcVars, dns>>

\* the loop ran out of hot servers: return moves
RBReturn ==
    /\ rbPc = "loop"
    /\ rbHot = <<>>
    /\ rbPc' = "done"
    /\ UNCHANGED <<rbBackends, rbServers, rbHot, rbMoves, rbTrace,
                   dbVars, saVars,
                   hcVars, dns>>

NextRB == RBCollect \/ RBBreak \/ RBVisit \/ RBReturn

InitRB == InitDB /\ InitSAIdle /\ InitSnapshot /\ InitHCIdle /\ InitDns

SpecRB == InitRB /\ [][NextRB]_vars

----------------------------------------------------------------------------
(* slice_assignments.rs: SliceAssignments.                                 *)

\* new: the ring lookup is unwrapped, so an empty ring panics
SaNewPanics(servers) == Buckets(servers) = {}

SaNew(servers) ==
    [servers |-> servers,
     assignments |-> [s \in 1..NUM_SLICES |->
                        position(servers, lookup(servers, as_u8(s - 1)))]]

\* (mutation of removed_servers: no server counts as removed)
removed_serversNone(self, servers) == {}

\* indices of self.servers that are not in the new list
removed_servers(self, servers) ==
    {i - 1 : i \in {j \in 1..Len(self.servers) :
                        self.servers[j] \notin Range(servers)}}

\* update panics when a slice has to be re-assigned and the ring is empty
UpdatePanics(self, servers) ==
    /\ servers # self.servers
    /\ Buckets(servers) = {}
    /\ \E s \in 1..Len(self.assignments) :
          self.assignments[s] \in removed_servers(self, servers)

\* the entry update leaves for a slice whose owner was not removed
KeptEntry(self, servers, s) == self.assignments[s]

update(self, servers) ==
    IF servers = self.servers THEN self
    ELSE LET removed == removed_servers(self, servers)
         IN [servers |-> servers,
             assignments |-> [s \in 1..Len(self.assignments) |->
                IF self.assignments[s] \in removed
                THEN position(servers, lookup(servers, as_u8(s - 1)))
                ELSE KeptEntry(self, servers, s)]]

\* (mutation of to_backends: every backend carries a usage sample with load
\* one for each slice it holds)
to_backendsSampled(self) ==
    {[addr |-> self.servers[i],
      slices |-> {s - 1 : s \in {t \in 1..Len(self.assignments) :
                                    self.assignments[t] = i - 1}},
      health |-> [HealthStatusNew EXCEPT !.usage =
                    SomeUsage([s \in {t - 1 : t \in {u \in 1..Len(self.assignments) :
                                    self.assignments[u] = i - 1}} |-> 1])]] :
        i \in {j \in 1..Len(self.servers) :
                \A k \in 1..(j - 1) : self.servers[k] # self.servers[j]}}

\* to_backends: one Backend per server with the slices whose entry is the
\* server's index and a fresh HealthStatus.  Backends are equal when their
\* addresses are, and BTreeSet::insert keeps the element it already has.
to_backends(self) ==
    {[addr |-> self.servers[i],
      slices |-> {s - 1 : s \in {t \in 1..Len(self.assignments) :
                                    self.assignments[t] = i - 1}},
      health |-> HealthStatusNew] :
        i \in {j \in 1..Len(self.servers) :
                \A k \in 1..(j - 1) : self.servers[k] # self.servers[j]}}

\* move_load: the loop over the moves; the index lookup is unwrapped and the
\* vector is indexed, so an unknown address or slice panics
MovePanics(self, moves) ==
    \E m \in 1..Len(moves) :
        \/ moves[m].to_server \notin Range(self.servers)
        \/ moves[m].slice_id >= Len(self.assignments)

RECURSIVE ApplyMoves(_, _)
ApplyMoves(self, moves) ==
    IF moves = <<>> THEN self
    ELSE ApplyMoves(
            [self EXCEPT !.assignments[Head(moves).slice_id + 1] =
                            position(self.servers, Head(moves).to_server)],
            Tail(moves))

----------------------------------------------------------------------------
(* selection.rs: SliceSelection.                                           *)

\* request keys: byte strings of length at most one
Keys == {<<>>} \cup {<<b>> : b \in 0..3}

\* DefaultHasher over the key (length prefix, then the bytes), modelled by a
\* fixed deterministic mixing function
RECURSIVE HashBytes(_, _)
HashBytes(h, key) ==
    IF key = <<>> THEN h
    ELSE HashBytes((h * 131 + Head(key) + 1) % 65521, Tail(key))

finish(key) == HashBytes(Len(key) + 40, key)

slice_of(key) == finish(key) % NUM_SLICES

\* SliceSelection::build: the backends in the order of the BTreeSet, which
\* orders them by a hash of the address: some order
BuildOrders(backends) == SeqsOf(backends)

\* (mutation of Scan: answer with the first backend of the boxed slice)
ScanFirst(backends, slice) == IF Len(backends) > 0 THEN 1 ELSE 0

\* the backend the scan of iter stops at, as an index into the boxed slice;
\* 0 when no backend holds the slice
Scan(backends, slice) ==
    IF \E i \in 1..Len(backends) : slice \in backends[i].slices
    THEN CHOOSE i \in 1..Len(backends) :
            /\ slice \in backends[i].slices
            /\ \A j \in 1..(i - 1) : slice \notin backends[j].slices
    ELSE 0

\* SliceSelection::iter followed by SliceBackendIterator::next
iter(backends, key) ==
    LET slice == slice_of(key)
    IN IF Len(backends) = 0
       THEN [key |-> key, slice |-> slice, result |-> "None", addr |-> 0]
       ELSE IF Scan(backends, slice) = 0
       THEN [key |-> key, slice |-> slice, result |-> "panic", addr |-> 0]
       ELSE [key |-> key, slice |-> slice, result |-> "Some",
             addr |-> backends[Scan(backends, slice)].addr]

----------------------------------------------------------------------------
(* SpecSA: one SliceAssignments object and the router over its backends.   *)

\* worker lists handed to new and update: distinct addresses, any order
WorkerLists ==
    UNION {{q \in [1..n -> Addrs] : \A i, j \in 1..n : i # j => q[i] # q[j]} :
            n \in 0..MaxListLen}

Alive == outcome = "ok"

SANew(servers) ==
    /\ routed = NotRouted
    /\ lastOp.n < MaxOps
    /\ lastOp' = [op |-> "new", arg |-> servers, before |-> sa,
                  n |-> lastOp.n + 1]
    /\ IF SaNewPanics(servers)
       THEN sa' = EmptySA /\ outcome' = "panic"
       ELSE sa' = SaNew(servers) /\ outcome' = "ok"
    /\ routed' = NotRouted
    /\ UNCHANGED <<dbVars, rbVars,
                   hcVars, dns>>

SAUpdate(servers) ==
    /\ routed = NotRouted
    /\ Alive
    /\ lastOp.n < MaxOps
    /\ lastOp' = [op |-> "update", arg |-> servers, before |-> sa,
                  n |-> lastOp.n + 1]
    /\ IF UpdatePanics(sa, servers)
       THEN sa' = sa /\ outcome' = "panic"
       ELSE sa' = update(sa, servers) /\ outcome' = "ok"
    /\ routed' = NotRouted
    /\ UNCHANGED <<dbVars, rbVars,
                   hcVars, dns>>

SAMoveLoad ==
    /\ routed = NotRouted
    /\ Alive
    /\ lastOp.n < MaxOps
    /\ \E moves \in find_best_moves(to_backends(sa)) :
          /\ lastOp' = [op |-> "move_load", arg |-> moves, before |-> sa,
                        n |-> lastOp.n + 1]
          /\ IF MovePanics(sa, moves)
             THEN sa' = sa /\ outcome' = "panic"
             ELSE sa' = ApplyMoves(sa, moves) /\ outcome' = "ok"
    /\ routed' = NotRouted
    /\ UNCHANGED <<dbVars, rbVars,
                   hcVars, dns>>

\* a request with routing key `key` against the backends of the object.  A
\* request leaves the object as it is, so one request is followed per object
\* state and the operations are taken from the state before it.
SARoute(key) ==
    /\ Alive
    /\ routed = NotRouted
    /\ \E backends \in BuildOrders(to_backends(sa)) :
          routed' = iter(backends, key)
    /\ UNCHANGED <<sa, lastOp, outcome, dbVars, rbVars,
                   hcVars, dns>>

NextSA ==
    \/ \E servers \in WorkerLists : SANew(servers)
    \/ \E servers \in WorkerLists : SAUpdate(servers)
    \/ SAMoveLoad
    \/ \E key \in Keys : SARoute(key)

SpecSA == Init /\ [][NextSA]_vars

----------------------------------------------------------------------------
(* health_check.rs: WorkerHealthCheck::check against one backend.          *)

Statuses == {200, 204, 500}

\* the usage maps a worker reports
SampleMaps == {<<>>} \cup {[d \in {0} |-> l] : l \in 1..MaxLoad}

\* response bodies, as the JSON object's fields in order: no body, an
\* object without "slices", a Usage object, a Usage object with a further
\* field
Bodies ==
    {<<>>, <<<<"load", 1>>>>}
        \cup {<<<<"slices", m>>>> : m \in SampleMaps}
        \cup {<<<<"slices", [d \in {0} |-> 1]>>, <<"extra", 0>>>>}

\* serde_json::from_slice::<Usage>(body).ok(): the field "slices" is
\* required, unknown fields are ignored
from_slice(body) ==
    IF \E i \in 1..Len(body) : body[i][1] = "slices"
    THEN SomeUsage(body[Field(body, "slices")][2])
    ELSE NoUsage

\* what can happen to a probe: the connection is refused or times out, the
\* header read times out, the body read fails after the header, or the
\* response arrives with its body
Probes ==
    {[kind |-> k, status |-> 0, body |-> <<>>] :
        k \in {"refused", "connect_timeout", "read_timeout"}}
    \cup {[kind |-> "body_error", status |-> st, body |-> <<>>] :
            st \in Statuses}
    \cup {[kind |-> "response", status |-> st, body |-> b] :
            st \in Statuses, b \in Bodies}

\* (mutation of set_health: usage is overwritten on every call)
set_healthAlways(state, is_healthy, usage, now) ==
    [is_healthy |-> is_healthy, usage |-> usage, last_check |-> now]

\* set_health on the backend's HealthStatusInner
set_health(state, is_healthy, usage, now) ==
    [is_healthy |-> is_healthy,
     usage |-> IF usage.some THEN usage ELSE state.usage,
     last_check |-> now]

\* (mutation of Checked: a status other than 200 returns before set_health)
CheckedOn200(state, probe, now) ==
    IF probe.kind # "response" \/ probe.status # 200 THEN state
    ELSE set_health(state, TRUE, from_slice(probe.body), now)

\* the HealthStatusInner after check(target) met `probe`
Checked(state, probe, now) ==
    IF probe.kind # "response" THEN state
    ELSE set_health(state, probe.status = 200, from_slice(probe.body), now)

\* what check returns: Ok(()), or an error, which carries the status as its
\* CustomCode when the status was not 200
Returned(probe) ==
    IF probe.kind # "response" THEN [ok |-> FALSE, code |-> 0]
    ELSE IF probe.status # 200 THEN [ok |-> FALSE, code |-> probe.status]
    ELSE [ok |-> TRUE, code |-> 0]

----------------------------------------------------------------------------
(* SpecHC: probes of one backend.                                          *)

HcTick ==
    /\ hcNow < MaxNow
    /\ hcNow' = hcNow + 1
    /\ UNCHANGED <<hc, hcProbe, hcStreak, hcParsed, dbVars, saVars, rbVars,
                   dns>>

Check(probe) ==
    /\ hcProbe.n < MaxProbes
    /\ hc' = Checked(hc, probe, hcNow)
    /\ hcProbe' = [n |-> hcProbe.n + 1, kind |-> probe.kind,
                   status |-> probe.status, body |-> probe.body,
                   ok |-> Returned(probe).ok, code |-> Returned(probe).code]
    /\ hcStreak' = IF Returned(probe).ok
                   THEN [fails |-> 0, succs |-> hcStreak.succs + 1]
                   ELSE [fails |-> hcStreak.fails + 1, succs |-> 0]
    /\ hcParsed' = IF probe.kind = "response" /\ from_slice(probe.body).some
                   THEN from_slice(probe.body) ELSE hcParsed
    /\ UNCHANGED <<hcNow, dbVars, saVars, rbVars, dns>>

NextHC == HcTick \/ \E probe \in Probes : Check(probe)

SpecHC == Init /\ [][NextHC]_vars

----------------------------------------------------------------------------
(* Claims about the assignments table (checked under Spec).                *)

Reported(r) == pc[r] \in {"wrote", "done"}
Committed(r) == Reported(r) /\ resp[r][1]

\* every replica read the same committed state and its cas has reported
AllRaced ==
    \A r \in Replicas : Reported(r) /\ readAt[r] = readAt[1]

\* C1: when all replicas call cas with the version they read from the same
\* stored state, exactly one call reports committed = true and the stored
\* payload is the payload of that call.
C1_ExactlyOneCommit ==
    AllRaced =>
        /\ Cardinality({r \in Replicas : Committed(r)}) = 1
        /\ \A r \in Replicas : Committed(r) => db.data = to_string(local[r])

\* the UPDATE of replica r changes the row in this step
Commits(r) == pc[r] = "writing" /\ pc'[r] = "wrote" /\ resp'[r][1]

\* C2: a cas commits only if no other cas has committed since the get that
\* returned its expected version.
C2_NoClobber ==
    [][\A r \in Replicas : Commits(r) => commits = readAt[r]]_vars

\* C3: the version stored by a committed cas is strictly greater than the
\* version stored before it.
C3_VersionIncreases ==
    [][commits' > commits => db'.timestamp > db.timestamp]_vars

\* what get_assignments returns in this state
Get == <<from_str(db.data), db.timestamp>>

\* the UPDATE of replica r runs in this step
Writes(r) == pc[r] = "writing" /\ pc'[r] = "wrote"

\* C12: after a cas of sa commits and returns v', and as long as nothing else
\* commits, get returns the servers and assignments of sa with the version
\* v' > 0, and a cas of the same writer with v' as precondition commits.
C12_RoundTrip ==
    /\ [](\A r \in Replicas : (Committed(r) /\ heldAt[r] = commits) =>
            /\ Get[1] = local[r]
            /\ Get[2] = resp[r][2]
            /\ Get[2] > 0)
    /\ [][\A r \in Replicas :
            (Writes(r) /\ reused[r] /\ readAt[r] = commits) => resp'[r][1]]_vars

\* C12 witness: a writer committed, wrote again with the returned version and
\* committed again, while another replica ran a cycle of its own
C12_Witness ==
    \E r \in Replicas :
        /\ Committed(r) /\ reused[r] /\ heldAt[r] = commits /\ commits >= 2
        /\ Get[1] = local[r] /\ local[r].servers # <<>>
        /\ \E q \in Replicas \ {r} : pc[q] # "idle"

\* new_servers of replica r returns in this step
Returns(r) == pc[r] = "wrote" /\ pc'[r] = "done"

\* C13: when replicas a and b hold the version of the same stored state and a
\* has committed, the cas of b reports a conflict and writes nothing, and b
\* publishes the payload that is stored when it returns.
C13_LoserYields ==
    [][\A a, b \in Replicas :
        /\ (a # b /\ Committed(a) /\ readAt[a] = readAt[b] /\ Writes(b))
                => (~resp'[b][1] /\ db' = db)
        /\ (Returns(b) /\ ~resp[b][1]) => published'[b] = Get[1]]_vars

\* C14: a cas whose expected version differs from the stored one leaves the
\* row as it is and returns committed = false with the unchanged version.
C14_ConflictReturn ==
    [][\A r \in Replicas :
        (Writes(r) /\ expected[r] # db.timestamp) =>
            /\ db' = db
            /\ resp'[r] = <<FALSE, db.timestamp>>]_vars

\* the address that owns slice s (0-based) in the SA x
StoredOwner(x, s) == x.servers[x.assignments[s + 1] + 1]

\* C20: a cycle that read a stored SA with workers and commits keeps, for
\* every slice whose owner is still discovered, that owner address.
C20_ReconcileByUpdate ==
    [][\A r \in Replicas :
        (Writes(r) /\ resp'[r][1] /\ readAt[r] = commits
            /\ Get[1].servers # <<>>) =>
            \A s \in Slices :
                StoredOwner(Get[1], s) \in Range(local[r].servers)
                    => StoredOwner(local[r], s) = StoredOwner(Get[1], s)]_vars

----------------------------------------------------------------------------
(* Claims about SliceAssignments and the router (checked under SpecSA).    *)

Sorted(servers) == \A i, j \in 1..Len(servers) : i < j => servers[i] < servers[j]

\* a worker list as discovery produces it: non-empty, IPv4, ascending
Ipv4List(servers) ==
    /\ servers # <<>>
    /\ \A i \in 1..Len(servers) : is_ipv4(servers[i])
    /\ Sorted(servers)

ValidSA(x) ==
    /\ Len(x.assignments) = NUM_SLICES
    /\ \A s \in 1..Len(x.assignments) : x.assignments[s] < Len(x.servers)
    /\ Sorted(x.servers)

\* the address that owns slice s (0-based), 0 when the entry is no index
OwnerOf(x, s) ==
    IF x.assignments[s + 1] < Len(x.servers)
    THEN x.servers[x.assignments[s + 1] + 1] ELSE 0

Did(op) == lastOp.op = op /\ outcome = "ok"

\* C4: new on a non-empty ascending IPv4 list, and update of a valid SA with
\* such a list, give NUM_SLICES assignments that are all indices into
\* servers, and servers sorted ascending without duplicates.  (The inputs
\* are already ascending here: the claim fails even for those.)
C4_BuildUpdateValid ==
    /\ (Did("new") /\ Ipv4List(lastOp.arg)) => ValidSA(sa)
    /\ (Did("update") /\ Ipv4List(lastOp.arg) /\ ValidSA(lastOp.before))
            => ValidSA(sa)

\* C5: after update(new_servers) every slice whose owner is in new_servers
\* still has that owner address.  (The new list is already ascending here:
\* the claim fails even for those.)
C5_UpdateMinimal ==
    (Did("update") /\ ValidSA(lastOp.before) /\ Sorted(lastOp.arg)) =>
        \A s \in Slices :
            OwnerOf(lastOp.before, s) \in Range(lastOp.arg)
                => OwnerOf(sa, s) = OwnerOf(lastOp.before, s)

\* C6: the slice sets of to_backends are pairwise disjoint and cover every
\* slice, after new followed by any updates and move_loads.
C6_OneOwnerPerSlice ==
    (outcome = "ok" /\ lastOp.op # "none") =>
        /\ \A b, c \in to_backends(sa) : b # c => b.slices \cap c.slices = {}
        /\ UNION {b.slices : b \in to_backends(sa)} = Slices

\* C7: when a backend's slice set contains hash(key) mod NUM_SLICES, the
\* router answers with exactly that backend.
C7_RoutingFidelity ==
    routed.result # "none" =>
        /\ routed.slice = slice_of(routed.key)
        /\ \A b \in to_backends(sa) :
              routed.slice \in b.slices
                => routed.result = "Some" /\ routed.addr = b.addr

\* C7 witness: with two backends the router answered with the second server
C7_Witness ==
    /\ routed.result = "Some"
    /\ Cardinality(to_backends(sa)) = 2
    /\ routed.addr = sa.servers[2]
    /\ \E b \in to_backends(sa) : b.addr = routed.addr /\ routed.slice \in b.slices

\* C8: new returns the same servers and assignments for every ordering of
\* the same worker addresses.
C8_BuildOrderIndependent ==
    Did("new") =>
        \A p \in SeqsOf(Range(lastOp.arg)) : SaNew(p) = sa

\* C15: after new and after any updates, no entry of assignments is the
\* index of a non-IPv4 address in servers.  (The lists are ascending here:
\* the claim fails even for those.)
C15_Ipv4Owners ==
    (outcome = "ok" /\ lastOp.op \in {"new", "update"}
        /\ Sorted(lastOp.arg) /\ Sorted(lastOp.before.servers)) =>
        \A s \in 1..Len(sa.assignments) :
            sa.assignments[s] < Len(sa.servers)
                => is_ipv4(sa.servers[sa.assignments[s] + 1])

\* C16: new on a list without an IPv4 worker ends in a defined outcome, not
\* in a panic: the empty list gives an SA with empty assignments, a list of
\* non-IPv4 addresses gives the error NoEligibleWorkers.
C16_NoEligibleWorkers ==
    (lastOp.op = "new" /\ Buckets(lastOp.arg) = {}) =>
        IF lastOp.arg = <<>>
        THEN outcome = "ok" /\ sa = EmptySA
        ELSE outcome = "NoEligibleWorkers"

\* C17: with no backend the router answers that there is no upstream; with
\* backends none of which holds the request's slice it fails with the error
\* SliceUnassigned, and the process keeps running.
C17_RouterErrors ==
    routed.result # "none" =>
        IF to_backends(sa) = {}
        THEN routed.result = "None"
        ELSE (\A b \in to_backends(sa) : routed.slice \notin b.slices)
                => routed.result = "SliceUnassigned"

\* slice s (0-based) had an owner before the last operation and that owner
\* is not in the list the operation was given
Orphan(s) ==
    /\ lastOp.before.assignments[s + 1] < Len(lastOp.before.servers)
    /\ OwnerOf(lastOp.before, s) \notin Range(lastOp.arg)

\* C18: after update(new_servers) every slice whose previous owner is not in
\* new_servers is owned by the address the ring over the IPv4 members of
\* new_servers returns for it, the owner new(new_servers) gives it.
C18_OrphanReassignment ==
    Did("update") =>
        \A s \in Slices :
            Orphan(s) =>
                /\ Buckets(lastOp.arg) # {}
                /\ OwnerOf(sa, s) = lookup(lastOp.arg, as_u8(s))
                /\ OwnerOf(sa, s) = OwnerOf(SaNew(lastOp.arg), s)

\* C18 witness: an update removed an owner and kept another one, and the
\* orphaned slices went to two different workers
C18_Witness ==
    /\ Did("update")
    /\ \E s, t \in Slices :
          /\ Orphan(s) /\ Orphan(t)
          /\ OwnerOf(sa, s) # OwnerOf(sa, t)
    /\ \E s \in Slices :
          /\ lastOp.before.assignments[s + 1] < Len(lastOp.before.servers)
          /\ OwnerOf(lastOp.before, s) \in Range(lastOp.arg)

\* C19: update with a list of the same addresses as self.servers, in any
\* order, leaves servers and assignments as they are; so update(S) applied
\* twice equals update(S) applied once.
C19_UpdateNoOp ==
    Did("update") =>
        /\ Range(lastOp.arg) = Range(lastOp.before.servers) => sa = lastOp.before
        /\ update(sa, lastOp.arg) = sa

----------------------------------------------------------------------------
(* Claims about the rebalancer (checked under SpecRB).                     *)

BackendAddrs == {b.addr : b \in rbBackends}

\* C9: find_best_moves returns at most MAX_MOVES_PER_CYCLE moves, each from
\* and to the address of a backend of the input set.
C9_RebalancerBound ==
    /\ Len(rbMoves) <= MAX_MOVES_PER_CYCLE
    /\ \A m \in 1..Len(rbMoves) :
          /\ rbMoves[m].from_server \in BackendAddrs
          /\ rbMoves[m].to_server \in BackendAddrs

\* C9 witness: the loop was left with servers still to visit, three moves made
C9_Witness ==
    /\ rbPc = "done"
    /\ rbHot # <<>>
    /\ Len(rbMoves) = MAX_MOVES_PER_CYCLE

\* no server's load exceeds 1.2 times the mean load of the sampled servers
Balanced(servers) ==
    \A a \in DOMAIN servers :
        10 * servers[a] * Cardinality(DOMAIN servers) <= 12 * Sum(servers)

Loads0 == collect_servers(rbBackends)
Slices0 == collect_server_slices(rbBackends)

\* C11: when a server is hot, find_best_moves returns a first move whose
\* source has the maximum total load, whose slice has the maximum reported
\* load on that source, and whose target has the minimum total load among the
\* other sampled servers.
C11_FirstMove ==
    /\ (rbPc = "done" /\ overloaded(Loads0) # {}) => Len(rbMoves) >= 1
    /\ Len(rbMoves) >= 1 =>
          LET m == rbMoves[1]
          IN /\ m.from_server \in DOMAIN Loads0
             /\ \A a \in DOMAIN Loads0 : Loads0[a] <= Loads0[m.from_server]
             /\ m.slice_id \in DOMAIN Slices0[m.from_server]
             /\ \A t \in DOMAIN Slices0[m.from_server] :
                   Slices0[m.from_server][t] <= Slices0[m.from_server][m.slice_id]
             /\ m.to_server \in DOMAIN Loads0 \ {m.from_server}
             /\ \A a \in DOMAIN Loads0 \ {m.from_server} :
                   Loads0[m.to_server] <= Loads0[a]

\* C11 witness: a finished run with two hot servers of different load, the
\* hotter one holding two slices of different load, and targets of different
\* load
C11_Witness ==
    /\ rbPc = "done"
    /\ Len(rbMoves) >= 2
    /\ Loads0[rbMoves[1].from_server] > Loads0[rbMoves[2].from_server]
    /\ \E t \in DOMAIN Slices0[rbMoves[1].from_server] :
          Slices0[rbMoves[1].from_server][t]
            < Slices0[rbMoves[1].from_server][rbMoves[1].slice_id]
    /\ \E a \in DOMAIN Loads0 : Loads0[a] > Loads0[rbMoves[1].to_server]
                                  /\ ~IsHot(Loads0, a)

\* C24: two runs of find_best_moves on the same snapshot return the same
\* list of moves: the list a run returned is the only one the snapshot
\* allows, also with ties among hot servers, slices or targets.
C24_Deterministic ==
    rbPc = "done" => find_best_moves(rbBackends) = {rbMoves}

\* the running map after the k-th pushed move
RunningAfter(k) == IF k < Len(rbMoves) THEN rbTrace[k + 1] ELSE rbServers

\* C25: each move is applied to the running load map before the next hot
\* server is looked at: after the k-th move the source's running load is
\* lower and the target's higher by the moved slice's load, the other loads
\* and the sum are unchanged, and the target of every move is a least-loaded
\* other server under the loads that include the moves before it.
C25_RunningLoads ==
    \A k \in 1..Len(rbMoves) :
        LET m == rbMoves[k]
            load == Slices0[m.from_server][m.slice_id]
            before == rbTrace[k]
            after == RunningAfter(k)
        IN /\ after[m.from_server] = before[m.from_server] - load
           /\ after[m.to_server] = before[m.to_server] + load
           /\ \A a \in DOMAIN before \ {m.from_server, m.to_server} :
                 after[a] = before[a]
           /\ Sum(after) = Sum(Loads0)
           /\ \A a \in DOMAIN before \ {m.from_server} :
                 before[m.to_server] <= before[a]

\* C25 witness: the second move went to a server that was not least loaded
\* in the snapshot and is so only once the first move is counted
C25_Witness ==
    /\ rbPc = "done"
    /\ Len(rbMoves) >= 2
    /\ \E a \in DOMAIN Loads0 \ {rbMoves[2].from_server} :
          Loads0[a] < Loads0[rbMoves[2].to_server]

\* the number of slices whose entry in self is index i
Owned(self, i) ==
    Cardinality({s \in 1..Len(self.assignments) : self.assignments[s] = i})

\* C28: move_load never changes a SliceAssignments object: the backends it
\* hands to the rebalancer carry no usage sample, so no move is found and
\* servers and assignments stay as they were.
C28_MoveLoadNoOp ==
    lastOp.op = "move_load" =>
        /\ outcome = "ok"
        /\ lastOp.arg = <<>>
        /\ sa = lastOp.before

\* C28 witness: move_load has run on an object with two servers of which one
\* holds more than 1.2 times the mean number of slices
C28_Witness ==
    /\ Did("move_load")
    /\ Len(sa.servers) = 2
    /\ \E i \in 0..1 : 5 * 2 * Owned(sa, i) > 6 * NUM_SLICES

----------------------------------------------------------------------------
(* Claims about the health check (checked under SpecHC).                   *)

\* a probe ran in this step
Probed == hcProbe'.n = hcProbe.n + 1

\* C21: the backend flips to unhealthy only after consecutive_failure failed
\* probes in a row and back to healthy only after consecutive_success
\* successful ones, and a failure of any kind (timeout, connection refused,
\* non-200) counts: with consecutive_failure failures in a row the backend is
\* unhealthy.
C21_Thresholds ==
    [][Probed =>
        /\ (hc.is_healthy /\ ~hc'.is_healthy)
                => hcStreak'.fails >= consecutive_failure
        /\ (~hc.is_healthy /\ hc'.is_healthy)
                => hcStreak'.succs >= consecutive_success
        /\ hcStreak'.fails >= consecutive_failure => ~hc'.is_healthy]_vars

\* the last probe got a response and drained its body
Drained == hcProbe.kind = "response"

\* C22: usage is the sample of the most recent probe whose body parsed; a
\* probe whose body does not parse leaves the sample as it was and still
\* sets is_healthy and last_check.
C22_UsageOnlyOnParse ==
    /\ [](hc.usage = hcParsed)
    /\ [][(Probed /\ hcProbe'.kind = "response"
                /\ ~from_slice(hcProbe'.body).some) =>
            /\ hc'.usage = hc.usage
            /\ hc'.is_healthy = (hcProbe'.status = 200)
            /\ hc'.last_check = hcNow]_vars

\* C22 witness: a response whose body did not parse came after a sample was
\* stored, at a later instant, and turned the backend unhealthy
C22_Witness ==
    /\ Drained
    /\ ~from_slice(hcProbe.body).some
    /\ hc.usage.some /\ hc.usage = hcParsed
    /\ hc.last_check = hcNow /\ hcNow > 1
    /\ ~hc.is_healthy

\* C23: after a probe that got a response and drained its body, a status
\* of 200 has marked the backend healthy and check returned Ok; any other
\* status has marked it unhealthy, check returned an error carrying the
\* status, and the telemetry parsed from the body is the backend's usage.
C23_StatusAndTelemetry ==
    Drained =>
        IF hcProbe.status = 200
        THEN hc.is_healthy /\ hcProbe.ok
        ELSE /\ ~hc.is_healthy
             /\ ~hcProbe.ok /\ hcProbe.code = hcProbe.status
             /\ from_slice(hcProbe.body).some
                    => hc.usage = from_slice(hcProbe.body)

\* C23 witness: a later probe got a non-200 response with a Usage body, which
\* is now the backend's sample
C23_Witness ==
    /\ Drained /\ hcProbe.n >= 2
    /\ hcProbe.status # 200 /\ hcProbe.code = hcProbe.status
    /\ from_slice(hcProbe.body).some
    /\ hc.usage = from_slice(hcProbe.body)
    /\ hc.usage.slices # <<>>
    /\ ~hc.is_healthy

----------------------------------------------------------------------------
(* Claims about the discovery cycles (checked under SpecDS).               *)

\* the cycle of replica r fails in this step: its lookup finds the name
\* server down or gets no answer, or a call to the store returns an error
DiscoveryFails(r) ==
    pc[r] = "read" /\ pc'[r] # "read" /\ (~dns.up \/ dns.answers = {})
StoreFails(r) == pc[r] # "failed" /\ pc'[r] = "failed"

\* C26: a failed cycle changes nothing that is published: when the lookup
\* fails or returns no answer, or the read or write of the table fails, the
\* replica keeps its published assignments and its backend set, and its task
\* goes on to the next cycle.
C26_FailedCycleSkipped ==
    [][\A r \in Replicas :
        (DiscoveryFails(r) \/ StoreFails(r)) =>
            /\ published'[r] = published[r]
            /\ dns'.emitted[r] = dns.emitted[r]
            /\ pc'[r] # "panicked"]_vars

\* C27: a replica that completes a cycle publishes the payload the table
\* held at its last access in the cycle (what it wrote when its write
\* committed, what it read back on a conflict), and once the discovered
\* workers stop changing, eventually every replica publishes, for ever, the
\* assignments stored in the table.
C27_Convergence ==
    /\ [][\A r \in Replicas :
            /\ (Writes(r) /\ resp'[r][1]) => from_str(db'.data) = local[r]
            /\ Returns(r) =>
                  published'[r] = IF resp[r][1] THEN local[r] ELSE Get[1]]_vars
    /\ <>[](dns.settled => \A r \in Replicas : published[r] = Get[1])

\* the convergence of C27 for the replicas whose task is alive
C27_RunningConverge ==
    <>[](dns.settled =>
            \A r \in Replicas : pc[r] # "panicked" => published[r] = Get[1])
====
